---------------------------- MODULE Spec2Model ----------------------------
(***************************************************************************)
(* Key codec and transcript binding of src/proof_system/widget/mod.rs:     *)
(* VerifierKey (to_bytes, from_bytes, from_polynomial_commitments,         *)
(* seed_transcript) and ProverKey (to_var_bytes, from_slice).              *)
(*                                                                         *)
(* Byte buffers are sequences of 0..255.  u64::SIZE and Commitment::SIZE   *)
(* carry their real widths.  BlsScalar::SIZE and EvaluationDomain::SIZE    *)
(* are widths of collaborating types; the codec is parametric in them and  *)
(* the model instantiates them with small widths so that every byte        *)
(* position of a ProverKey encoding can be enumerated.                     *)
(***************************************************************************)
EXTENDS Integers, Sequences, FiniteSets, TLC

\* vk, vsrc: a VerifierKey and how it was built (by the constructor, with
\* its arguments, or as a struct literal).  vbytes: its to_bytes.  vbuf,
\* vtamper, vres: the buffer handed to the decoder, how it was derived from
\* vbytes, and the result.  transcript: the transcript vk seeded;
\* transcript2: the transcript the decoded key seeded.
\* pk, pbytes: a ProverKey and its to_var_bytes.  buf: the buffer handed to
\* from_slice; tamper: how it was derived from pbytes; pres: the result.
\* reenc: to_var_bytes of the decoded ProverKey.  again: the bytes of a
\* second encoding of vk or pk.  calls: the calls in progress on a key
\* that several callers share, one per caller.
VARIABLES vk, vsrc, vbytes, vbuf, vtamper, vres, transcript, transcript2,
          pk, pbytes, buf, tamper, pres, reenc, again, calls

vars == <<vk, vsrc, vbytes, vbuf, vtamper, vres, transcript, transcript2,
          pk, pbytes, buf, tamper, pres, reenc, again, calls>>

(***************************************************************************)
(* Widths                                                                  *)
(***************************************************************************)
\* u64::SIZE
U64Size == 8
\* Commitment::SIZE (a compressed G1 point)
CommitmentSize == 48
\* BlsScalar::SIZE, scaled
ScalarSize == 2
\* EvaluationDomain::SIZE, scaled
DomainSize == 2

(***************************************************************************)
(* Bounds of the input families                                            *)
(***************************************************************************)
\* field elements are 0..ScalarModulus-1; larger encodings are invalid residues
ScalarModulus == 251
\* curve points are 0..NumPoints-1
NumPoints == 3
\* a polynomial has 0..MaxCoeffs coefficients
MaxCoeffs == 1
\* an Evaluations block has 0..MaxEvals values
MaxEvals == 1
\* a declared length is inflated by 1..MaxInflate
MaxInflate == 1
\* a VerifierKey buffer is cut by 1..MaxCut bytes
MaxCut == 1
\* the most bytes appended to a ProverKey buffer
MaxSuffix == 1
\* circuit sizes: the two test sizes (2^5, 2^11)
CircuitSizes == {32, 2048}

NoKey == [none |-> TRUE]
NoResult == [kind |-> "none"]

Byte == 0..255

(***************************************************************************)
(* dusk_bytes: little-endian integers, the slice reader and writer         *)
(***************************************************************************)
\* v.to_le_bytes() on `width` bytes, for v below 2^24 (every integer the
\* model encodes is)
LeBytes(v, width) ==
    [i \in 1..width |->
        CASE i = 1 -> v % 256
          [] i = 2 -> (v \div 256) % 256
          [] i = 3 -> (v \div 65536) % 256
          [] OTHER -> 0]

\* the value of the byte string is below 2^24
IsSmall(b) == \A i \in 4..Len(b) : b[i] = 0

\* from_le_bytes, for byte strings whose value is below 2^24
LeValue(b) ==
    (IF Len(b) >= 1 THEN b[1] ELSE 0)
    + (IF Len(b) >= 2 THEN 256 * b[2] ELSE 0)
    + (IF Len(b) >= 3 THEN 65536 * b[3] ELSE 0)

Zeros(len) == [i \in 1..len |-> 0]

\* (x as u64).to_bytes()
U64ToBytes(x) == LeBytes(x, U64Size)

\* u64::from_bytes(..) as usize; a value of 2^24 or more keeps its bytes
U64FromBytes(b) == IF IsSmall(b) THEN LeValue(b) ELSE [big |-> b]

RECURSIVE MulBytes(_, _, _)
\* little-endian b times m, carry c, wrapped at the width of b
MulBytes(b, m, c) ==
    IF Len(b) = 0 THEN <<>>
    ELSE LET d == b[1] * m + c
         IN  <<d % 256>> \o MulBytes(Tail(b), m, d \div 256)

RECURSIVE MulCarry(_, _, _)
\* what little-endian b times m, carry c, loses when wrapped at the width
\* of b: not 0 exactly when the product overflows
MulCarry(b, m, c) ==
    IF Len(b) = 0 THEN c
    ELSE MulCarry(Tail(b), m, (b[1] * m + c) \div 256)

\* a writer over the unwritten tail of a zeroed buffer: out is what was
\* written, room the bytes left.  write() copies data when it fits and
\* otherwise returns an error that the callers ignore (unused_must_use).
NewWriter(size) == [out |-> <<>>, room |-> size]

Write(w, data) ==
    IF Len(data) > w.room THEN w
    ELSE [out |-> w.out \o data, room |-> w.room - Len(data)]

RECURSIVE WriteAll(_, _, _, _)
\* the writes items[lo..hi], one after the other: the first half, then the
\* second on the writer the first half leaves.  With no room left every
\* further write is refused or empty, and the writer stays as it is.
WriteAll(w, items, lo, hi) ==
    IF lo > hi \/ w.room = 0 THEN w
    ELSE IF lo = hi THEN Write(w, items[lo])
    ELSE WriteAll(WriteAll(w, items, lo, (lo + hi) \div 2),
                  items, (lo + hi) \div 2 + 1, hi)

RECURSIVE TotalLen(_, _, _)
\* the bytes of the writes items[lo..hi] together
TotalLen(items, lo, hi) ==
    IF lo > hi THEN 0
    ELSE IF lo = hi THEN Len(items[lo])
    ELSE TotalLen(items, lo, (lo + hi) \div 2)
         + TotalLen(items, (lo + hi) \div 2 + 1, hi)

\* the buffer once the writer is done: the written bytes, then the zeros
\* the buffer was created with
Buffer(w) == w.out \o Zeros(w.room)

(***************************************************************************)
(* Commitment (kzg10) and its fixed-width encoding                         *)
(***************************************************************************)
Points == 0..(NumPoints - 1)

\* Commitment::to_bytes: flag byte, then the coordinate
CommitmentToBytes(c) == <<128 + c>> \o LeBytes(7 * c + 1, CommitmentSize - 1)

\* Commitment::from_bytes: fails unless the bytes are a point's encoding
CommitmentFromBytes(b) ==
    IF \E c \in Points : CommitmentToBytes(c) = b
    THEN [kind |-> "ok", val |-> CHOOSE c \in Points : CommitmentToBytes(c) = b]
    ELSE [kind |-> "err", err |-> "InvalidPoint"]

(***************************************************************************)
(* VerifierKey                                                             *)
(***************************************************************************)
\* a buffer with room for 14 commitments only
VerifierKeySize_short == 14 * CommitmentSize + U64Size

VerifierKeySize == 15 * CommitmentSize + U64Size

\* the constructor handing q_r to the fixed-base fragment as q_l, and q_l
\* as q_r
from_polynomial_commitments_fixed_swapped(n, q_m, q_l, q_r, q_o, q_4, q_c, q_arith, q_logic, q_range, q_fixed_group_add, q_variable_group_add, left_sigma, right_sigma, out_sigma, fourth_sigma) ==
    [n |-> n,
     arithmetic |-> [q_m |-> q_m, q_l |-> q_l, q_r |-> q_r, q_o |-> q_o,
                     q_4 |-> q_4, q_c |-> q_c, q_arith |-> q_arith],
     logic |-> [q_c |-> q_c, q_logic |-> q_logic],
     range |-> [q_range |-> q_range],
     fixed_base |-> [q_fixed_group_add |-> q_fixed_group_add,
                     q_l |-> q_r, q_r |-> q_l],
     variable_base |-> [q_variable_group_add |-> q_variable_group_add],
     permutation |-> [left_sigma |-> left_sigma, right_sigma |-> right_sigma,
                      out_sigma |-> out_sigma, fourth_sigma |-> fourth_sigma]]

\* the constructor putting q_c into the arithmetic slot q_4, and q_4 into
\* its slot q_c
from_polynomial_commitments_q_4_is_q_c(n, q_m, q_l, q_r, q_o, q_4, q_c, q_arith, q_logic, q_range, q_fixed_group_add, q_variable_group_add, left_sigma, right_sigma, out_sigma, fourth_sigma) ==
    [n |-> n,
     arithmetic |-> [q_m |-> q_m, q_l |-> q_l, q_r |-> q_r, q_o |-> q_o,
                     q_4 |-> q_c, q_c |-> q_4, q_arith |-> q_arith],
     logic |-> [q_c |-> q_c, q_logic |-> q_logic],
     range |-> [q_range |-> q_range],
     fixed_base |-> [q_fixed_group_add |-> q_fixed_group_add,
                     q_l |-> q_l, q_r |-> q_r],
     variable_base |-> [q_variable_group_add |-> q_variable_group_add],
     permutation |-> [left_sigma |-> left_sigma, right_sigma |-> right_sigma,
                      out_sigma |-> out_sigma, fourth_sigma |-> fourth_sigma]]

from_polynomial_commitments(n, q_m, q_l, q_r, q_o, q_4, q_c, q_arith, q_logic, q_range, q_fixed_group_add, q_variable_group_add, left_sigma, right_sigma, out_sigma, fourth_sigma) ==
    [n |-> n,
     arithmetic |-> [q_m |-> q_m, q_l |-> q_l, q_r |-> q_r, q_o |-> q_o,
                     q_4 |-> q_4, q_c |-> q_c, q_arith |-> q_arith],
     logic |-> [q_c |-> q_c, q_logic |-> q_logic],
     range |-> [q_range |-> q_range],
     fixed_base |-> [q_fixed_group_add |-> q_fixed_group_add,
                     q_l |-> q_l, q_r |-> q_r],
     variable_base |-> [q_variable_group_add |-> q_variable_group_add],
     permutation |-> [left_sigma |-> left_sigma, right_sigma |-> right_sigma,
                      out_sigma |-> out_sigma, fourth_sigma |-> fourth_sigma]]

\* the writes in the order seed_transcript absorbs the commitments
VkWrites_transcript_order(k) ==
    << U64ToBytes(k.n),
       CommitmentToBytes(k.arithmetic.q_m),
       CommitmentToBytes(k.arithmetic.q_l),
       CommitmentToBytes(k.arithmetic.q_r),
       CommitmentToBytes(k.arithmetic.q_o),
       CommitmentToBytes(k.arithmetic.q_c),
       CommitmentToBytes(k.arithmetic.q_4),
       CommitmentToBytes(k.arithmetic.q_arith),
       CommitmentToBytes(k.range.q_range),
       CommitmentToBytes(k.logic.q_logic),
       CommitmentToBytes(k.variable_base.q_variable_group_add),
       CommitmentToBytes(k.fixed_base.q_fixed_group_add),
       CommitmentToBytes(k.permutation.left_sigma),
       CommitmentToBytes(k.permutation.right_sigma),
       CommitmentToBytes(k.permutation.out_sigma),
       CommitmentToBytes(k.permutation.fourth_sigma) >>

\* the writes with q_l taken from the fixed_base fragment
VkWrites_fixed_base_q_l(k) ==
    << U64ToBytes(k.n),
       CommitmentToBytes(k.arithmetic.q_m),
       CommitmentToBytes(k.fixed_base.q_l),
       CommitmentToBytes(k.arithmetic.q_r),
       CommitmentToBytes(k.arithmetic.q_o),
       CommitmentToBytes(k.arithmetic.q_4),
       CommitmentToBytes(k.arithmetic.q_c),
       CommitmentToBytes(k.arithmetic.q_arith),
       CommitmentToBytes(k.logic.q_logic),
       CommitmentToBytes(k.range.q_range),
       CommitmentToBytes(k.fixed_base.q_fixed_group_add),
       CommitmentToBytes(k.variable_base.q_variable_group_add),
       CommitmentToBytes(k.permutation.left_sigma),
       CommitmentToBytes(k.permutation.right_sigma),
       CommitmentToBytes(k.permutation.out_sigma),
       CommitmentToBytes(k.permutation.fourth_sigma) >>

\* the 16 writes of to_bytes, in order
VkWrites(k) ==
    << U64ToBytes(k.n),
       CommitmentToBytes(k.arithmetic.q_m),
       CommitmentToBytes(k.arithmetic.q_l),
       CommitmentToBytes(k.arithmetic.q_r),
       CommitmentToBytes(k.arithmetic.q_o),
       CommitmentToBytes(k.arithmetic.q_4),
       CommitmentToBytes(k.arithmetic.q_c),
       CommitmentToBytes(k.arithmetic.q_arith),
       CommitmentToBytes(k.logic.q_logic),
       CommitmentToBytes(k.range.q_range),
       CommitmentToBytes(k.fixed_base.q_fixed_group_add),
       CommitmentToBytes(k.variable_base.q_variable_group_add),
       CommitmentToBytes(k.permutation.left_sigma),
       CommitmentToBytes(k.permutation.right_sigma),
       CommitmentToBytes(k.permutation.out_sigma),
       CommitmentToBytes(k.permutation.fourth_sigma) >>

to_bytes(k) == Buffer(WriteAll(NewWriter(VerifierKeySize), VkWrites(k), 1, 16))

\* the i-th commitment slot of a VerifierKey buffer, i in 1..15
VkSlot(b, i) ==
    SubSeq(b, U64Size + (i - 1) * CommitmentSize + 1, U64Size + i * CommitmentSize)

\* from_bytes handing the fifth and sixth commitment read to the
\* constructor in the other order
from_bytes_q_c_first(b) ==
    LET c == [i \in 1..15 |-> CommitmentFromBytes(VkSlot(b, i))]
        bad == {i \in 1..15 : c[i].kind # "ok"}
    IN  IF bad # {}
        THEN [kind |-> "err", err |-> c[CHOOSE i \in bad : \A j \in bad : i <= j].err]
        ELSE [kind |-> "ok",
              val |-> from_polynomial_commitments(
                         U64FromBytes(SubSeq(b, 1, U64Size)),
                         c[1].val, c[2].val, c[3].val, c[4].val, c[6].val,
                         c[5].val, c[7].val, c[8].val, c[9].val, c[10].val,
                         c[11].val, c[12].val, c[13].val, c[14].val, c[15].val)]

\* from_bytes taking the generator for the last commitment when its slot
\* does not parse
from_bytes_lenient_last(b) ==
    LET c == [i \in 1..15 |-> CommitmentFromBytes(VkSlot(b, i))]
        bad == {i \in 1..14 : c[i].kind # "ok"}
    IN  IF bad # {}
        THEN [kind |-> "err", err |-> c[CHOOSE i \in bad : \A j \in bad : i <= j].err]
        ELSE [kind |-> "ok",
              val |-> from_polynomial_commitments(
                         U64FromBytes(SubSeq(b, 1, U64Size)),
                         c[1].val, c[2].val, c[3].val, c[4].val, c[5].val,
                         c[6].val, c[7].val, c[8].val, c[9].val, c[10].val,
                         c[11].val, c[12].val, c[13].val, c[14].val,
                         IF c[15].kind = "ok" THEN c[15].val ELSE 0)]

\* from_bytes: sixteen from_reader calls in sequence, the first failure
\* returned; the key is built by from_polynomial_commitments
from_bytes(b) ==
    LET c == [i \in 1..15 |-> CommitmentFromBytes(VkSlot(b, i))]
        bad == {i \in 1..15 : c[i].kind # "ok"}
    IN  IF bad # {}
        THEN [kind |-> "err", err |-> c[CHOOSE i \in bad : \A j \in bad : i <= j].err]
        ELSE [kind |-> "ok",
              val |-> from_polynomial_commitments(
                         U64FromBytes(SubSeq(b, 1, U64Size)),
                         c[1].val, c[2].val, c[3].val, c[4].val, c[5].val,
                         c[6].val, c[7].val, c[8].val, c[9].val, c[10].val,
                         c[11].val, c[12].val, c[13].val, c[14].val, c[15].val)]

\* from_slice accepting a slice one byte short and reading it from a
\* zeroed array
VerifierKeyFromSlice_one_short(b) ==
    IF Len(b) < VerifierKeySize - 1 THEN [kind |-> "err", err |-> "BadLength"]
    ELSE from_bytes(SubSeq(b \o Zeros(1), 1, VerifierKeySize))

\* DeserializableSlice::from_slice, which dusk_bytes gives every
\* Serializable type: a slice shorter than SIZE is a length error, otherwise
\* its first SIZE bytes go to from_bytes
VerifierKeyFromSlice(b) ==
    IF Len(b) < VerifierKeySize THEN [kind |-> "err", err |-> "BadLength"]
    ELSE from_bytes(SubSeq(b, 1, VerifierKeySize))

\* the struct literal of a VerifierKey on the generator point (0), with the
\* shared selectors q_l and q_c given per fragment
VerifierKeyLiteral(n, q_l, q_c, fixed_q_l, logic_q_c) ==
    [n |-> n,
     arithmetic |-> [q_m |-> 0, q_l |-> q_l, q_r |-> 0, q_o |-> 0,
                     q_4 |-> 0, q_c |-> q_c, q_arith |-> 0],
     logic |-> [q_c |-> logic_q_c, q_logic |-> 0],
     range |-> [q_range |-> 0],
     fixed_base |-> [q_fixed_group_add |-> 0, q_l |-> fixed_q_l, q_r |-> 0],
     variable_base |-> [q_variable_group_add |-> 0],
     permutation |-> [left_sigma |-> 0, right_sigma |-> 0,
                      out_sigma |-> 0, fourth_sigma |-> 0]]

\* TranscriptProtocol
append_commitment(t, label, c) ==
    Append(t, [label |-> label, kind |-> "commitment", value |-> c])

circuit_domain_sep(t, n) ==
    Append(t, [label |-> "n", kind |-> "circuit_domain_sep", value |-> n])

\* seed_transcript absorbing q_variable_group_add after q_fixed_group_add,
\* as to_bytes writes them
seed_transcript_codec_order(k, t) ==
    LET t1  == append_commitment(t, "q_m", k.arithmetic.q_m)
        t2  == append_commitment(t1, "q_l", k.arithmetic.q_l)
        t3  == append_commitment(t2, "q_r", k.arithmetic.q_r)
        t4  == append_commitment(t3, "q_o", k.arithmetic.q_o)
        t5  == append_commitment(t4, "q_c", k.arithmetic.q_c)
        t6  == append_commitment(t5, "q_4", k.arithmetic.q_4)
        t7  == append_commitment(t6, "q_arith", k.arithmetic.q_arith)
        t8  == append_commitment(t7, "q_range", k.range.q_range)
        t9  == append_commitment(t8, "q_logic", k.logic.q_logic)
        t10 == append_commitment(t9, "q_fixed_group_add",
                                 k.fixed_base.q_fixed_group_add)
        t11 == append_commitment(t10, "q_variable_group_add",
                                 k.variable_base.q_variable_group_add)
        t12 == append_commitment(t11, "left_sigma", k.permutation.left_sigma)
        t13 == append_commitment(t12, "right_sigma", k.permutation.right_sigma)
        t14 == append_commitment(t13, "out_sigma", k.permutation.out_sigma)
        t15 == append_commitment(t14, "fourth_sigma", k.permutation.fourth_sigma)
    IN  circuit_domain_sep(t15, k.n)

seed_transcript(k, t) ==
    LET t1  == append_commitment(t, "q_m", k.arithmetic.q_m)
        t2  == append_commitment(t1, "q_l", k.arithmetic.q_l)
        t3  == append_commitment(t2, "q_r", k.arithmetic.q_r)
        t4  == append_commitment(t3, "q_o", k.arithmetic.q_o)
        t5  == append_commitment(t4, "q_c", k.arithmetic.q_c)
        t6  == append_commitment(t5, "q_4", k.arithmetic.q_4)
        t7  == append_commitment(t6, "q_arith", k.arithmetic.q_arith)
        t8  == append_commitment(t7, "q_range", k.range.q_range)
        t9  == append_commitment(t8, "q_logic", k.logic.q_logic)
        t10 == append_commitment(t9, "q_variable_group_add",
                                 k.variable_base.q_variable_group_add)
        t11 == append_commitment(t10, "q_fixed_group_add",
                                 k.fixed_base.q_fixed_group_add)
        t12 == append_commitment(t11, "left_sigma", k.permutation.left_sigma)
        t13 == append_commitment(t12, "right_sigma", k.permutation.right_sigma)
        t14 == append_commitment(t13, "out_sigma", k.permutation.out_sigma)
        t15 == append_commitment(t14, "fourth_sigma", k.permutation.fourth_sigma)
    IN  circuit_domain_sep(t15, k.n)


(***************************************************************************)
(* BlsScalar, Polynomial, EvaluationDomain, Evaluations and their bytes    *)
(***************************************************************************)
Scalars == 0..(ScalarModulus - 1)

ScalarToBytes(s) == LeBytes(s, ScalarSize)

\* BlsScalar::from_slice: a short chunk is a length error, a value that is
\* not a residue an encoding error
ScalarFromSlice(b) ==
    IF Len(b) < ScalarSize THEN [kind |-> "err", err |-> "BadLength"]
    ELSE LET x == SubSeq(b, 1, ScalarSize)
         IN  IF ~IsSmall(x) \/ LeValue(x) >= ScalarModulus
             THEN [kind |-> "err", err |-> "InvalidScalar"]
             ELSE [kind |-> "ok", val |-> LeValue(x)]

\* the encodings of the scalars xs, one after the other
ScalarsToBytes(xs) ==
    [p \in 1..(Len(xs) * ScalarSize) |->
        LET enc == ScalarToBytes(xs[(p - 1) \div ScalarSize + 1])
        IN  enc[((p - 1) % ScalarSize) + 1]]

\* bytes.chunks(BlsScalar::SIZE).map(BlsScalar::from_slice).collect()
ScalarsFromChunks(b) ==
    LET cnt == (Len(b) + ScalarSize - 1) \div ScalarSize
        hi(i) == IF i * ScalarSize <= Len(b) THEN i * ScalarSize ELSE Len(b)
        r == [i \in 1..cnt |->
                 ScalarFromSlice(SubSeq(b, (i - 1) * ScalarSize + 1, hi(i)))]
        bad == {i \in 1..cnt : r[i].kind # "ok"}
    IN  IF bad # {}
        THEN [kind |-> "err", err |-> r[CHOOSE i \in bad : \A j \in bad : i <= j].err]
        ELSE [kind |-> "ok", val |-> [i \in 1..cnt |-> r[i].val]]

\* Polynomial::to_var_bytes / Polynomial::from_slice; a polynomial is the
\* sequence of its coefficients
PolynomialToVarBytes(p) == ScalarsToBytes(p)

PolynomialFromSlice(b) == ScalarsFromChunks(b)

\* EvaluationDomain::to_bytes / from_bytes; a domain is named by its size
DomainToBytes(d) == LeBytes(d, DomainSize)

DomainFromBytes(b) ==
    IF ~IsSmall(b) \/ LeValue(b) >= ScalarModulus
    THEN [kind |-> "err", err |-> "InvalidScalar"]
    ELSE [kind |-> "ok", val |-> LeValue(b)]

\* Evaluations::to_var_bytes: the domain, then the values
EvaluationsToVarBytes(e) == DomainToBytes(e.domain) \o ScalarsToBytes(e.evals)

\* Evaluations::from_slice
EvaluationsFromSlice(b) ==
    IF Len(b) < DomainSize THEN [kind |-> "err", err |-> "BadLength"]
    ELSE LET d == DomainFromBytes(SubSeq(b, 1, DomainSize))
             v == ScalarsFromChunks(SubSeq(b, DomainSize + 1, Len(b)))
         IN  IF d.kind # "ok" THEN d
             ELSE IF v.kind # "ok" THEN v
             ELSE [kind |-> "ok", val |-> [evals |-> v.val, domain |-> d.val]]

(***************************************************************************)
(* ProverKey                                                               *)
(***************************************************************************)
num_polys == 15

num_evals == 17

\* the writes of to_var_bytes after the two header integers, in order:
\* for each pair the coefficient count, the coefficients, the evaluations
PairWrites(pair) ==
    << U64ToBytes(Len(pair[1])),
       PolynomialToVarBytes(pair[1]),
       EvaluationsToVarBytes(pair[2]) >>

\* the writes of 13 pairs only: out_sigma and fourth_sigma are left out
PkWrites_13(k) ==
    LET evals_size == Len(k.arithmetic.q_m[2].evals) * ScalarSize + DomainSize
    IN  << U64ToBytes(k.n), U64ToBytes(evals_size) >>
        \o PairWrites(k.arithmetic.q_m)
        \o PairWrites(k.arithmetic.q_l)
        \o PairWrites(k.arithmetic.q_r)
        \o PairWrites(k.arithmetic.q_o)
        \o PairWrites(k.arithmetic.q_4)
        \o PairWrites(k.arithmetic.q_c)
        \o PairWrites(k.arithmetic.q_arith)
        \o PairWrites(k.logic.q_logic)
        \o PairWrites(k.range.q_range)
        \o PairWrites(k.fixed_base.q_fixed_group_add)
        \o PairWrites(k.variable_base.q_variable_group_add)
        \o PairWrites(k.permutation.left_sigma)
        \o PairWrites(k.permutation.right_sigma)
        \o << EvaluationsToVarBytes(k.permutation.linear_evaluations),
              EvaluationsToVarBytes(k.v_h_coset_4n) >>

\* the writes with an evaluations-block length that leaves out
\* EvaluationDomain::SIZE
PkWrites_header_without_domain(k) ==
    LET evals_size == Len(k.arithmetic.q_m[2].evals) * ScalarSize
    IN  << U64ToBytes(k.n), U64ToBytes(evals_size) >>
        \o PairWrites(k.arithmetic.q_m)
        \o PairWrites(k.arithmetic.q_l)
        \o PairWrites(k.arithmetic.q_r)
        \o PairWrites(k.arithmetic.q_o)
        \o PairWrites(k.arithmetic.q_4)
        \o PairWrites(k.arithmetic.q_c)
        \o PairWrites(k.arithmetic.q_arith)
        \o PairWrites(k.logic.q_logic)
        \o PairWrites(k.range.q_range)
        \o PairWrites(k.fixed_base.q_fixed_group_add)
        \o PairWrites(k.variable_base.q_variable_group_add)
        \o PairWrites(k.permutation.left_sigma)
        \o PairWrites(k.permutation.right_sigma)
        \o PairWrites(k.permutation.out_sigma)
        \o PairWrites(k.permutation.fourth_sigma)
        \o << EvaluationsToVarBytes(k.permutation.linear_evaluations),
              EvaluationsToVarBytes(k.v_h_coset_4n) >>

PkWrites(k) ==
    LET evals_size == Len(k.arithmetic.q_m[2].evals) * ScalarSize + DomainSize
    IN  << U64ToBytes(k.n), U64ToBytes(evals_size) >>
        \o PairWrites(k.arithmetic.q_m)
        \o PairWrites(k.arithmetic.q_l)
        \o PairWrites(k.arithmetic.q_r)
        \o PairWrites(k.arithmetic.q_o)
        \o PairWrites(k.arithmetic.q_4)
        \o PairWrites(k.arithmetic.q_c)
        \o PairWrites(k.arithmetic.q_arith)
        \o PairWrites(k.logic.q_logic)
        \o PairWrites(k.range.q_range)
        \o PairWrites(k.fixed_base.q_fixed_group_add)
        \o PairWrites(k.variable_base.q_variable_group_add)
        \o PairWrites(k.permutation.left_sigma)
        \o PairWrites(k.permutation.right_sigma)
        \o PairWrites(k.permutation.out_sigma)
        \o PairWrites(k.permutation.fourth_sigma)
        \o << EvaluationsToVarBytes(k.permutation.linear_evaluations),
              EvaluationsToVarBytes(k.v_h_coset_4n) >>

\* a vec with room for 16 integers instead of 17
PkCapacity_16(k) ==
    LET poly_size == Len(k.arithmetic.q_m[1]) * ScalarSize
        evals_size == Len(k.arithmetic.q_m[2].evals) * ScalarSize + DomainSize
    IN  num_polys * poly_size + evals_size * num_evals + 16 * U64Size

\* the length of the vec to_var_bytes creates
PkCapacity(k) ==
    LET poly_size == Len(k.arithmetic.q_m[1]) * ScalarSize
        evals_size == Len(k.arithmetic.q_m[2].evals) * ScalarSize + DomainSize
    IN  num_polys * poly_size + evals_size * num_evals + 17 * U64Size

to_var_bytes(k) ==
    Buffer(WriteAll(NewWriter(PkCapacity(k)), PkWrites(k), 1, Len(PkWrites(k))))

\* u64::from_reader(&mut buffer), the raw bytes of the integer: an error
\* when fewer than u64::SIZE bytes are left
u64_from_reader(bytes, pos) ==
    IF Len(bytes) - pos < U64Size THEN [kind |-> "err", err |-> "BadLength"]
    ELSE [kind |-> "ok", pos |-> pos + U64Size,
          val |-> SubSeq(bytes, pos + 1, pos + U64Size)]

\* buf.split_at(mid) with mid given by its little-endian bytes: panics when
\* mid exceeds the bytes left
SplitFits(bytes, pos, mid) == IsSmall(mid) /\ LeValue(mid) <= Len(bytes) - pos

\* poly_from_reader stepping over one field element where the count is zero
poly_from_reader_skips_one(bytes, pos) ==
    LET c == u64_from_reader(bytes, pos)
        serialized_poly_len == MulBytes(c.val, ScalarSize, 0)
        len == LeValue(serialized_poly_len)
        poly == PolynomialFromSlice(SubSeq(bytes, c.pos + 1, c.pos + len))
    IN  IF c.kind # "ok" THEN c
        ELSE IF serialized_poly_len = Zeros(U64Size)
             THEN [kind |-> "ok", pos |-> c.pos + ScalarSize, val |-> <<>>]
        ELSE IF ~SplitFits(bytes, c.pos, serialized_poly_len)
             THEN [kind |-> "panic"]
        ELSE IF poly.kind # "ok" THEN poly
        ELSE [kind |-> "ok", pos |-> c.pos + len, val |-> poly.val]

\* the closure poly_from_reader of from_slice
poly_from_reader(bytes, pos) ==
    LET c == u64_from_reader(bytes, pos)
        serialized_poly_len == MulBytes(c.val, ScalarSize, 0)
        len == LeValue(serialized_poly_len)
        poly == PolynomialFromSlice(SubSeq(bytes, c.pos + 1, c.pos + len))
    IN  IF c.kind # "ok" THEN c
        ELSE IF serialized_poly_len = Zeros(U64Size)
             THEN [kind |-> "ok", pos |-> c.pos, val |-> <<>>]
        ELSE IF ~SplitFits(bytes, c.pos, serialized_poly_len)
             THEN [kind |-> "panic"]
        ELSE IF poly.kind # "ok" THEN poly
        ELSE [kind |-> "ok", pos |-> c.pos + len, val |-> poly.val]

\* the closure evals_from_reader of from_slice; evaluations_size is the
\* second header integer
evals_from_reader(bytes, pos, evaluations_size) ==
    LET len == LeValue(evaluations_size)
        eval == EvaluationsFromSlice(SubSeq(bytes, pos + 1, pos + len))
    IN  IF ~SplitFits(bytes, pos, evaluations_size) THEN [kind |-> "panic"]
        ELSE IF eval.kind # "ok" THEN eval
        ELSE [kind |-> "ok", pos |-> pos + len, val |-> eval.val]

\* the reads of from_slice after the header, in order: 15 pairs, then
\* perm_linear_evaluations and v_h_coset_4n
PkReads ==
    [i \in 1..(2 * num_polys + 2) |->
        IF i <= 2 * num_polys /\ i % 2 = 1 THEN "poly" ELSE "evals"]

RECURSIVE ReadAll(_, _, _, _, _)
\* the reads lo..hi of PkReads after the reads that left st (the position
\* and the values read so far): the first half, then the second; the first
\* error or panic ends the function
ReadAll(bytes, evaluations_size, st, lo, hi) ==
    IF st.kind # "ok" \/ lo > hi THEN st
    ELSE IF lo = hi
    THEN LET r == IF PkReads[lo] = "poly"
                  THEN poly_from_reader(bytes, st.pos)
                  ELSE evals_from_reader(bytes, st.pos, evaluations_size)
         IN  IF r.kind # "ok" THEN r
             ELSE [kind |-> "ok", pos |-> r.pos, val |-> Append(st.val, r.val)]
    ELSE ReadAll(bytes, evaluations_size,
                 ReadAll(bytes, evaluations_size, st, lo, (lo + hi) \div 2),
                 (lo + hi) \div 2 + 1, hi)

\* the key assembled with q_range read before q_logic
AssembleProverKey_range_first(n, v) ==
    LET q_m == <<v[1], v[2]>>
        q_l == <<v[3], v[4]>>
        q_r == <<v[5], v[6]>>
        q_o == <<v[7], v[8]>>
        q_4 == <<v[9], v[10]>>
        q_c == <<v[11], v[12]>>
        q_arith == <<v[13], v[14]>>
        q_logic == <<v[17], v[18]>>
        q_range == <<v[15], v[16]>>
        q_fixed_group_add == <<v[19], v[20]>>
        q_variable_group_add == <<v[21], v[22]>>
        left_sigma == <<v[23], v[24]>>
        right_sigma == <<v[25], v[26]>>
        out_sigma == <<v[27], v[28]>>
        fourth_sigma == <<v[29], v[30]>>
        perm_linear_evaluations == v[31]
        v_h_coset_4n == v[32]
    IN  [n |-> n,
         arithmetic |-> [q_m |-> q_m, q_l |-> q_l, q_r |-> q_r, q_o |-> q_o,
                         q_c |-> q_c, q_4 |-> q_4, q_arith |-> q_arith],
         logic |-> [q_logic |-> q_logic, q_c |-> q_c],
         range |-> [q_range |-> q_range],
         fixed_base |-> [q_fixed_group_add |-> q_fixed_group_add,
                         q_l |-> q_l, q_r |-> q_r, q_c |-> q_c],
         permutation |-> [left_sigma |-> left_sigma, right_sigma |-> right_sigma,
                          out_sigma |-> out_sigma, fourth_sigma |-> fourth_sigma,
                          linear_evaluations |-> perm_linear_evaluations],
         variable_base |-> [q_variable_group_add |-> q_variable_group_add],
         v_h_coset_4n |-> v_h_coset_4n]

\* the key assembled with q_r copied into the fixed-base view of q_l
AssembleProverKey_fixed_q_l_is_q_r(n, v) ==
    LET k == AssembleProverKey_range_first(n, v)
        q_logic == <<v[15], v[16]>>
        q_range == <<v[17], v[18]>>
    IN  [k EXCEPT !.logic.q_logic = q_logic, !.range.q_range = q_range,
                  !.fixed_base.q_l = <<v[5], v[6]>>]

\* the key from_slice assembles from the values it read, v[1..32]
AssembleProverKey(n, v) ==
    LET q_m == <<v[1], v[2]>>
        q_l == <<v[3], v[4]>>
        q_r == <<v[5], v[6]>>
        q_o == <<v[7], v[8]>>
        q_4 == <<v[9], v[10]>>
        q_c == <<v[11], v[12]>>
        q_arith == <<v[13], v[14]>>
        q_logic == <<v[15], v[16]>>
        q_range == <<v[17], v[18]>>
        q_fixed_group_add == <<v[19], v[20]>>
        q_variable_group_add == <<v[21], v[22]>>
        left_sigma == <<v[23], v[24]>>
        right_sigma == <<v[25], v[26]>>
        out_sigma == <<v[27], v[28]>>
        fourth_sigma == <<v[29], v[30]>>
        perm_linear_evaluations == v[31]
        v_h_coset_4n == v[32]
    IN  [n |-> n,
         arithmetic |-> [q_m |-> q_m, q_l |-> q_l, q_r |-> q_r, q_o |-> q_o,
                         q_c |-> q_c, q_4 |-> q_4, q_arith |-> q_arith],
         logic |-> [q_logic |-> q_logic, q_c |-> q_c],
         range |-> [q_range |-> q_range],
         fixed_base |-> [q_fixed_group_add |-> q_fixed_group_add,
                         q_l |-> q_l, q_r |-> q_r, q_c |-> q_c],
         permutation |-> [left_sigma |-> left_sigma, right_sigma |-> right_sigma,
                          out_sigma |-> out_sigma, fourth_sigma |-> fourth_sigma,
                          linear_evaluations |-> perm_linear_evaluations],
         variable_base |-> [q_variable_group_add |-> q_variable_group_add],
         v_h_coset_4n |-> v_h_coset_4n]

\* from_slice refusing a circuit size that is not one of the model's keys
from_slice_requires_circuit_size(bytes) ==
    LET n == u64_from_reader(bytes, 0)
        evaluations_size == u64_from_reader(bytes, n.pos)
        r == ReadAll(bytes, evaluations_size.val,
                     [kind |-> "ok", pos |-> evaluations_size.pos, val |-> <<>>],
                     1, Len(PkReads))
    IN  IF n.kind # "ok" THEN n
        ELSE IF U64FromBytes(n.val) \notin CircuitSizes
             THEN [kind |-> "err", err |-> "InvalidData"]
        ELSE IF evaluations_size.kind # "ok" THEN evaluations_size
        ELSE IF r.kind # "ok" THEN r
        ELSE [kind |-> "ok", val |-> AssembleProverKey(U64FromBytes(n.val), r.val)]

\* from_slice refusing a buffer that goes on after v_h_coset_4n
from_slice_requires_end(bytes) ==
    LET n == u64_from_reader(bytes, 0)
        evaluations_size == u64_from_reader(bytes, n.pos)
        r == ReadAll(bytes, evaluations_size.val,
                     [kind |-> "ok", pos |-> evaluations_size.pos, val |-> <<>>],
                     1, Len(PkReads))
    IN  IF n.kind # "ok" THEN n
        ELSE IF evaluations_size.kind # "ok" THEN evaluations_size
        ELSE IF r.kind # "ok" THEN r
        ELSE IF r.pos # Len(bytes) THEN [kind |-> "err", err |-> "InvalidData"]
        ELSE [kind |-> "ok", val |-> AssembleProverKey(U64FromBytes(n.val), r.val)]

\* from_slice keeping the second header integer as the circuit size
from_slice_sizes_swapped(bytes) ==
    LET n == u64_from_reader(bytes, 0)
        evaluations_size == u64_from_reader(bytes, n.pos)
        r == ReadAll(bytes, evaluations_size.val,
                     [kind |-> "ok", pos |-> evaluations_size.pos, val |-> <<>>],
                     1, Len(PkReads))
    IN  IF n.kind # "ok" THEN n
        ELSE IF evaluations_size.kind # "ok" THEN evaluations_size
        ELSE IF r.kind # "ok" THEN r
        ELSE [kind |-> "ok",
              val |-> AssembleProverKey(U64FromBytes(evaluations_size.val), r.val)]

from_slice(bytes) ==
    LET n == u64_from_reader(bytes, 0)
        evaluations_size == u64_from_reader(bytes, n.pos)
        r == ReadAll(bytes, evaluations_size.val,
                     [kind |-> "ok", pos |-> evaluations_size.pos, val |-> <<>>],
                     1, Len(PkReads))
    IN  IF n.kind # "ok" THEN n
        ELSE IF evaluations_size.kind # "ok" THEN evaluations_size
        ELSE IF r.kind # "ok" THEN r
        ELSE [kind |-> "ok", val |-> AssembleProverKey(U64FromBytes(n.val), r.val)]

(***************************************************************************)
(* Input families                                                          *)
(***************************************************************************)
\* which polynomial may have its own coefficient count: 0 for none, else
\* q_m (1), q_l (2) or fourth_sigma (15)
Deviating == {0, 1, 2, 15}

\* the i-th polynomial and evaluations block of a test key; the values tell
\* the fields apart
FieldPoly(i, c) == [j \in 1..c |-> (10 * i + j) % ScalarModulus]

FieldEvals(i, e) ==
    [evals |-> [j \in 1..e |-> (100 + 10 * i + j) % ScalarModulus], domain |-> e]

FieldPair(i, c, e) == <<FieldPoly(i, c), FieldEvals(i, e)>>

\* a ProverKey built field by field as the test builds it: cnt[i] is the
\* coefficient count of the i-th polynomial, e the length of every
\* evaluations block; when aliased the shared selectors are clones
MakeProverKey(n, cnt, e, aliased) ==
    LET q_l == FieldPair(2, cnt[2], e)
        q_r == FieldPair(3, cnt[3], e)
        q_c == FieldPair(5, cnt[5], e)
        o_l == IF aliased THEN q_l ELSE FieldPair(18, cnt[2], e)
        o_r == IF aliased THEN q_r ELSE FieldPair(19, cnt[3], e)
        o_c == IF aliased THEN q_c ELSE FieldPair(20, cnt[5], e)
    IN  [n |-> n,
         arithmetic |-> [q_m |-> FieldPair(1, cnt[1], e), q_l |-> q_l, q_r |-> q_r,
                         q_o |-> FieldPair(4, cnt[4], e), q_c |-> q_c,
                         q_4 |-> FieldPair(6, cnt[6], e),
                         q_arith |-> FieldPair(7, cnt[7], e)],
         logic |-> [q_logic |-> FieldPair(8, cnt[8], e), q_c |-> o_c],
         range |-> [q_range |-> FieldPair(9, cnt[9], e)],
         fixed_base |-> [q_fixed_group_add |-> FieldPair(10, cnt[10], e),
                         q_l |-> o_l, q_r |-> o_r, q_c |-> q_c],
         permutation |-> [left_sigma |-> FieldPair(12, cnt[12], e),
                          right_sigma |-> FieldPair(13, cnt[13], e),
                          out_sigma |-> FieldPair(14, cnt[14], e),
                          fourth_sigma |-> FieldPair(15, cnt[15], e),
                          linear_evaluations |-> FieldEvals(16, e)],
         variable_base |-> [q_variable_group_add |-> FieldPair(11, cnt[11], e)],
         v_h_coset_4n |-> FieldEvals(17, e)]

\* no write of to_var_bytes is refused for lack of room
AllWritesFit(k) == TotalLen(PkWrites(k), 1, Len(PkWrites(k))) <= PkCapacity(k)

\* the offset of the i-th write in an encoding whose writes all fit
WriteOffset(k, i) == TotalLen(PkWrites(k), 1, i - 1)

\* b with the integer at offset off replaced by x
WithU64(b, off, x) ==
    SubSeq(b, 1, off) \o U64ToBytes(x) \o SubSeq(b, off + U64Size + 1, Len(b))

\* the encoding b of k with one declared length raised beyond the bytes
\* that follow it: the evaluations-block length of the header, or the
\* coefficient count of the j-th pair
Overdeclared(k, b) ==
    IF ~AllWritesFit(k) THEN {}
    ELSE {WithU64(b, U64Size, Len(b) - WriteOffset(k, 5) + d) : d \in 1..MaxInflate}
         \cup {WithU64(b, WriteOffset(k, 3 * j),
                       (Len(b) - WriteOffset(k, 3 * j + 1)) \div ScalarSize + d) :
                  j \in 1..num_polys, d \in 1..MaxInflate}

Truncated(b) == {SubSeq(b, 1, t) : t \in 0..(Len(b) - 1)}

\* circuit sizes that fit no key of the model: 0 and a number that is not a
\* power of two
ForeignSizes == {0, 7}

\* the encoding b with the circuit size of its header replaced
Renumbered(b) == {WithU64(b, 0, n) : n \in ForeignSizes}

\* the encoding b followed by 1..MaxSuffix more bytes
Extended(b) ==
    {b \o s : s \in UNION {[1..l -> {0, 255}] : l \in 1..MaxSuffix}}

\* coefficient counts of 2^63 and more: 2^63 + d for d = 0, 1
HugeCounts == {[i \in 1..U64Size |-> IF i = 1 THEN d ELSE IF i = U64Size THEN 128 ELSE 0] : d \in 0..1}

\* the encoding b with the coefficient count of q_m replaced by a huge one
Wrapping(b) ==
    {SubSeq(b, 1, 2 * U64Size) \o c \o SubSeq(b, 3 * U64Size + 1, Len(b)) :
        c \in HugeCounts}

\* the multiplication count * BlsScalar::SIZE of the first poly_from_reader
\* (q_m's count, the third integer of the buffer) overflows
QmCountOverflows(bytes) ==
    /\ Len(bytes) >= 3 * U64Size
    /\ MulCarry(SubSeq(bytes, 2 * U64Size + 1, 3 * U64Size), ScalarSize, 0) # 0

\* a VerifierKey buffer cut by 1..MaxCut bytes, cut inside its last
\* commitment, cut to the integer, and the empty buffer
Shortened(b) ==
    {SubSeq(b, 1, Len(b) - d) : d \in 1..MaxCut}
        \cup {SubSeq(b, 1, t) : t \in {0, U64Size, Len(b) - CommitmentSize + 1}}

\* a VerifierKey buffer with the flag byte of one commitment slot cleared
Corrupted(b) ==
    {[p \in 1..Len(b) |-> IF p = U64Size + (i - 1) * CommitmentSize + 1 THEN 0 ELSE b[p]] :
        i \in 1..15}

(***************************************************************************)
(* The state machine: a key is built, encoded, and the bytes decoded       *)
(***************************************************************************)
Init ==
    /\ vk = NoKey
    /\ vsrc = [how |-> "none"]
    /\ vbytes = <<>>
    /\ vbuf = <<>>
    /\ vtamper = "none"
    /\ vres = NoResult
    /\ transcript = <<>>
    /\ transcript2 = <<>>
    /\ pk = NoKey
    /\ pbytes = <<>>
    /\ buf = <<>>
    /\ tamper = "none"
    /\ pres = NoResult
    /\ reenc = <<>>
    /\ again = <<>>
    /\ calls = <<>>

\* VerifierKey::from_polynomial_commitments on the generator point (0) in
\* every slot but two neighbours
NewVerifierKey ==
    /\ vk = NoKey /\ pk = NoKey
    /\ \E n \in CircuitSizes, i \in 1..15, j \in 1..15, a \in Points, b \in Points :
          /\ j \in {i, i + 1}
          /\ LET c == [s \in 1..15 |-> IF s = j THEN b ELSE IF s = i THEN a ELSE 0]
             IN  /\ vk' = from_polynomial_commitments(n, c[1], c[2], c[3], c[4],
                              c[5], c[6], c[7], c[8], c[9], c[10], c[11], c[12],
                              c[13], c[14], c[15])
                 /\ vsrc' = [how |-> "constructor", n |-> n, c |-> c]
    /\ UNCHANGED <<vbytes, vbuf, vtamper, vres, transcript, transcript2,
                   pk, pbytes, buf, tamper, pres, reenc, again, calls>>

\* a VerifierKey written as a struct literal, fragment by fragment
NewVerifierKeyLiteral ==
    /\ vk = NoKey /\ pk = NoKey
    /\ \E n \in CircuitSizes, q_l \in Points, fixed_q_l \in Points,
          logic_q_c \in Points :
          /\ vk' = VerifierKeyLiteral(n, q_l, 0, fixed_q_l, logic_q_c)
          /\ vsrc' = [how |-> "literal"]
    /\ UNCHANGED <<vbytes, vbuf, vtamper, vres, transcript, transcript2,
                   pk, pbytes, buf, tamper, pres, reenc, again, calls>>

VkToBytes ==
    /\ vk # NoKey /\ vbytes = <<>>
    /\ vbytes' = to_bytes(vk)
    /\ UNCHANGED <<vk, vsrc, vbuf, vtamper, vres, transcript, transcript2,
                   pk, pbytes, buf, tamper, pres, reenc, again, calls>>

\* the decoder on the encoding, on a shorter buffer, or on the encoding
\* with one commitment slot damaged
VkFromBytes ==
    /\ vbytes # <<>> /\ vres = NoResult
    /\ \E how \in {"intact", "short", "corrupt"} :
          \E input \in CASE how = "intact" -> {vbytes}
                          [] how = "short" -> Shortened(vbytes)
                          [] how = "corrupt" -> Corrupted(vbytes) :
             /\ vbuf' = input
             /\ vtamper' = how
             /\ vres' = VerifierKeyFromSlice(input)
    /\ UNCHANGED <<vk, vsrc, vbytes, transcript, transcript2,
                   pk, pbytes, buf, tamper, pres, reenc, again, calls>>

\* to_bytes called on the key a second time, after the decoding
VkToBytesAgain ==
    /\ vres.kind = "ok" /\ again = <<>>
    /\ again' = to_bytes(vk)
    /\ UNCHANGED <<vk, vsrc, vbytes, vbuf, vtamper, vres, transcript, transcript2,
                   pk, pbytes, buf, tamper, pres, reenc, calls>>

\* seed_transcript on a fresh transcript
SeedTranscript ==
    /\ vk # NoKey /\ transcript = <<>>
    /\ transcript' = seed_transcript(vk, <<>>)
    /\ UNCHANGED <<vk, vsrc, vbytes, vbuf, vtamper, vres, transcript2,
                   pk, pbytes, buf, tamper, pres, reenc, again, calls>>

\* the decoded key seeded onto the transcript the first key has already
\* been absorbed into, not onto one of its own
SeedTranscriptDecoded_shared_transcript ==
    /\ vres.kind = "ok" /\ transcript2 = <<>>
    /\ transcript2' = seed_transcript(vres.val, transcript)
    /\ UNCHANGED <<vk, vsrc, vbytes, vbuf, vtamper, vres, transcript,
                   pk, pbytes, buf, tamper, pres, reenc, again, calls>>

\* seed_transcript of the decoded key on a second fresh transcript
SeedTranscriptDecoded ==
    /\ vres.kind = "ok" /\ transcript2 = <<>>
    /\ transcript2' = seed_transcript(vres.val, <<>>)
    /\ UNCHANGED <<vk, vsrc, vbytes, vbuf, vtamper, vres, transcript,
                   pk, pbytes, buf, tamper, pres, reenc, again, calls>>

NewProverKey ==
    /\ vk = NoKey /\ pk = NoKey
    /\ \E n \in CircuitSizes, e \in 0..MaxEvals, c0 \in 0..MaxCoeffs,
          dv \in Deviating, cd \in 0..MaxCoeffs, aliased \in BOOLEAN :
          /\ dv = 0 => cd = c0
          /\ dv # 0 => aliased
          /\ pk' = MakeProverKey(n, [i \in 1..15 |-> IF i = dv THEN cd ELSE c0],
                                 e, aliased)
    /\ UNCHANGED <<vk, vsrc, vbytes, vbuf, vtamper, vres, transcript, transcript2,
                   pbytes, buf, tamper, pres, reenc, again, calls>>

PkToVarBytes ==
    /\ pk # NoKey /\ pbytes = <<>>
    /\ pbytes' = to_var_bytes(pk)
    /\ UNCHANGED <<vk, vsrc, vbytes, vbuf, vtamper, vres, transcript, transcript2,
                   pk, buf, tamper, pres, reenc, again, calls>>

\* from_slice on the encoding, on a proper prefix of it, on the encoding
\* with a declared length raised, with another circuit size, with bytes
\* appended, or with a huge count for q_m.  The count is multiplied by
\* BlsScalar::SIZE in usize: where the product overflows, a build with
\* overflow checks panics and a build without them goes on with the
\* wrapped product.
PkFromSlice ==
    /\ pbytes # <<>> /\ pres = NoResult
    /\ \E how \in {"intact", "truncated", "overdeclared", "renumbered",
                    "extended", "wrapping"} :
          \E input \in CASE how = "intact" -> {pbytes}
                          [] how = "truncated" -> Truncated(pbytes)
                          [] how = "overdeclared" -> Overdeclared(pk, pbytes)
                          [] how = "renumbered" -> Renumbered(pbytes)
                          [] how = "extended" -> Extended(pbytes)
                          [] how = "wrapping" -> Wrapping(pbytes) :
             /\ buf' = input
             /\ tamper' = how
             /\ \E overflow_checks \in BOOLEAN :
                   pres' = IF overflow_checks /\ QmCountOverflows(input)
                           THEN [kind |-> "panic"]
                           ELSE from_slice(input)
    /\ UNCHANGED <<vk, vsrc, vbytes, vbuf, vtamper, vres, transcript, transcript2,
                   pk, pbytes, reenc, again, calls>>

\* the end of the ProverKey test with the buffer of the key's second
\* encoding created without its zeros: the bytes no write reaches are
\* whatever the allocation held
PkReencode_stale_buffer ==
    /\ pres.kind = "ok" /\ reenc = <<>>
    /\ reenc' = to_var_bytes(pres.val)
    /\ \E stale \in {0, 255} :
          LET w == WriteAll(NewWriter(PkCapacity(pk)), PkWrites(pk), 1,
                            Len(PkWrites(pk)))
          IN  again' = w.out \o [i \in 1..w.room |-> stale]
    /\ UNCHANGED <<vk, vsrc, vbytes, vbuf, vtamper, vres, transcript, transcript2,
                   pk, pbytes, buf, tamper, pres, calls>>

\* the end of the ProverKey test: the decoded key and the key itself are
\* encoded, the key for the second time
PkReencode ==
    /\ pres.kind = "ok" /\ reenc = <<>>
    /\ reenc' = to_var_bytes(pres.val)
    /\ again' = to_var_bytes(pk)
    /\ UNCHANGED <<vk, vsrc, vbytes, vbuf, vtamper, vres, transcript, transcript2,
                   pk, pbytes, buf, tamper, pres, calls>>

Next ==
    \/ NewVerifierKey
    \/ NewVerifierKeyLiteral
    \/ VkToBytes
    \/ VkFromBytes
    \/ VkToBytesAgain
    \/ SeedTranscript
    \/ SeedTranscriptDecoded
    \/ NewProverKey
    \/ PkToVarBytes
    \/ PkFromSlice
    \/ PkReencode

Spec == Init /\ [][Next]_vars

(***************************************************************************)
(* VerifierKey: round trip, byte layout, transcript                        *)
(***************************************************************************)
\* the commitments of a VerifierKey in the order to_bytes lays them out
CodecOrder(k) ==
    << k.arithmetic.q_m, k.arithmetic.q_l, k.arithmetic.q_r, k.arithmetic.q_o,
       k.arithmetic.q_4, k.arithmetic.q_c, k.arithmetic.q_arith,
       k.logic.q_logic, k.range.q_range,
       k.fixed_base.q_fixed_group_add, k.variable_base.q_variable_group_add,
       k.permutation.left_sigma, k.permutation.right_sigma,
       k.permutation.out_sigma, k.permutation.fourth_sigma >>

\* the labels of section 4.3, in order
TranscriptLabels ==
    << "q_m", "q_l", "q_r", "q_o", "q_c", "q_4", "q_arith", "q_range",
       "q_logic", "q_variable_group_add", "q_fixed_group_add",
       "left_sigma", "right_sigma", "out_sigma", "fourth_sigma" >>

\* the commitment of a VerifierKey that carries the name
FieldByName(k, name) ==
    CASE name = "q_m" -> k.arithmetic.q_m
      [] name = "q_l" -> k.arithmetic.q_l
      [] name = "q_r" -> k.arithmetic.q_r
      [] name = "q_o" -> k.arithmetic.q_o
      [] name = "q_c" -> k.arithmetic.q_c
      [] name = "q_4" -> k.arithmetic.q_4
      [] name = "q_arith" -> k.arithmetic.q_arith
      [] name = "q_range" -> k.range.q_range
      [] name = "q_logic" -> k.logic.q_logic
      [] name = "q_variable_group_add" -> k.variable_base.q_variable_group_add
      [] name = "q_fixed_group_add" -> k.fixed_base.q_fixed_group_add
      [] name = "left_sigma" -> k.permutation.left_sigma
      [] name = "right_sigma" -> k.permutation.right_sigma
      [] name = "out_sigma" -> k.permutation.out_sigma
      [] name = "fourth_sigma" -> k.permutation.fourth_sigma

\* C1: from_bytes(to_bytes(k)) succeeds and returns k, for every key k that
\* from_polynomial_commitments built
C1_VerifierKeyRoundTrip ==
    (vsrc.how = "constructor" /\ vtamper = "intact")
        => (vres.kind = "ok" /\ vres.val = vk)

\* a round trip of a key whose q_4 and q_c differ
C1_Witness ==
    /\ vres.kind = "ok"
    /\ vk.arithmetic.q_4 # vk.arithmetic.q_c

\* C5 as stated: to_bytes writes n, then the 15 commitments in the order
\* in which seed_transcript absorbs them
C5_TranscriptOrderInBytes ==
    vbytes # <<>> =>
        /\ SubSeq(vbytes, 1, U64Size) = U64ToBytes(vk.n)
        /\ \A i \in 1..15 :
              VkSlot(vbytes, i) = CommitmentToBytes(seed_transcript(vk, <<>>)[i].value)

\* C5 amended: to_bytes writes n, then the 15 commitments in the order
\* q_m, q_l, q_r, q_o, q_4, q_c, q_arith, q_logic, q_range,
\* q_fixed_group_add, q_variable_group_add, left_sigma, right_sigma,
\* out_sigma, fourth_sigma
C5_CodecOrderInBytes ==
    vbytes # <<>> =>
        /\ SubSeq(vbytes, 1, U64Size) = U64ToBytes(vk.n)
        /\ \A i \in 1..15 : VkSlot(vbytes, i) = CommitmentToBytes(CodecOrder(vk)[i])

\* an encoded key whose q_logic and q_range differ
C5_Witness ==
    /\ vbytes # <<>>
    /\ vk.logic.q_logic # vk.range.q_range

\* C6: seed_transcript appends exactly 16 items: the 15 commitments under
\* the labels of section 4.3 and in that order, each label with the key
\* field of that name, then the circuit size n as the domain separator
C6_TranscriptOrder ==
    transcript # <<>> =>
        /\ Len(transcript) = 16
        /\ \A i \in 1..15 :
              transcript[i] = [label |-> TranscriptLabels[i], kind |-> "commitment",
                               value |-> FieldByName(vk, TranscriptLabels[i])]
        /\ transcript[16].kind = "circuit_domain_sep"
        /\ transcript[16].value = vk.n

\* a seeded transcript of a key whose two group-addition selectors differ
C6_Witness ==
    /\ transcript # <<>>
    /\ vk.fixed_base.q_fixed_group_add # vk.variable_base.q_variable_group_add

\* C7: to_bytes returns 15 * Commitment::SIZE + 8 bytes, the 16 writes fill
\* them exactly and none is dropped, and the first 8 bytes encode n
C7_FixedSize ==
    vbytes # <<>> =>
        /\ Len(vbytes) = 15 * CommitmentSize + 8
        /\ TotalLen(VkWrites(vk), 1, 16) = Len(vbytes)
        /\ IsSmall(SubSeq(vbytes, 1, 8))
        /\ LeValue(SubSeq(vbytes, 1, 8)) = vk.n
        /\ \A i \in 1..15 : CommitmentFromBytes(VkSlot(vbytes, i)).kind = "ok"

\* an encoded key whose n takes more than one byte
C7_Witness ==
    /\ vbytes # <<>>
    /\ vk.n = 2048

(***************************************************************************)
(* ProverKey: round trip, truncation, byte layout                          *)
(***************************************************************************)
\* the 15 (Polynomial, Evaluations) pairs of a ProverKey in the order
\* to_var_bytes lays them out
PkCodecPairs(k) ==
    << k.arithmetic.q_m, k.arithmetic.q_l, k.arithmetic.q_r, k.arithmetic.q_o,
       k.arithmetic.q_4, k.arithmetic.q_c, k.arithmetic.q_arith,
       k.logic.q_logic, k.range.q_range,
       k.fixed_base.q_fixed_group_add, k.variable_base.q_variable_group_add,
       k.permutation.left_sigma, k.permutation.right_sigma,
       k.permutation.out_sigma, k.permutation.fourth_sigma >>

\* the same pairs in the order of section 4.3
PkTranscriptPairs(k) ==
    << k.arithmetic.q_m, k.arithmetic.q_l, k.arithmetic.q_r, k.arithmetic.q_o,
       k.arithmetic.q_c, k.arithmetic.q_4, k.arithmetic.q_arith,
       k.range.q_range, k.logic.q_logic,
       k.variable_base.q_variable_group_add, k.fixed_base.q_fixed_group_add,
       k.permutation.left_sigma, k.permutation.right_sigma,
       k.permutation.out_sigma, k.permutation.fourth_sigma >>

\* every pair a fragment holds, the shared selectors once per fragment
PkAllPairs(k) ==
    PkCodecPairs(k)
    \o << k.logic.q_c, k.fixed_base.q_l, k.fixed_base.q_r, k.fixed_base.q_c >>

\* the 17 Evaluations blocks to_var_bytes writes
PkEvalBlocks(k) ==
    [i \in 1..15 |-> PkCodecPairs(k)[i][2]]
    \o << k.permutation.linear_evaluations, k.v_h_coset_4n >>

UniformPolys(k) ==
    \A i \in 1..Len(PkAllPairs(k)) :
        Len(PkAllPairs(k)[i][1]) = Len(k.arithmetic.q_m[1])

UniformEvals(k) ==
    /\ \A i \in 1..17 :
          Len(PkEvalBlocks(k)[i].evals) = Len(k.arithmetic.q_m[2].evals)
    /\ \A i \in 1..Len(PkAllPairs(k)) :
          Len(PkAllPairs(k)[i][2].evals) = Len(k.arithmetic.q_m[2].evals)

SharedEqual(k) ==
    /\ k.fixed_base.q_l = k.arithmetic.q_l
    /\ k.fixed_base.q_r = k.arithmetic.q_r
    /\ k.fixed_base.q_c = k.arithmetic.q_c
    /\ k.logic.q_c = k.arithmetic.q_c

IsPrefix(a, b) == Len(a) <= Len(b) /\ SubSeq(b, 1, Len(a)) = a

\* a pair as the layout has it: the coefficient count, that many field
\* elements, one evaluations block
PairBytes(pair) ==
    U64ToBytes(Len(pair[1])) \o ScalarsToBytes(pair[1])
    \o DomainToBytes(pair[2].domain) \o ScalarsToBytes(pair[2].evals)

\* the layout: n, the evaluations-block length, the 15 pairs ps, then the
\* blocks linear_evaluations and v_h_coset_4n without a count
Layout(k, ps) ==
    U64ToBytes(k.n)
    \o U64ToBytes(DomainSize + ScalarSize * Len(k.arithmetic.q_m[2].evals))
    \o PairBytes(ps[1]) \o PairBytes(ps[2]) \o PairBytes(ps[3])
    \o PairBytes(ps[4]) \o PairBytes(ps[5]) \o PairBytes(ps[6])
    \o PairBytes(ps[7]) \o PairBytes(ps[8]) \o PairBytes(ps[9])
    \o PairBytes(ps[10]) \o PairBytes(ps[11]) \o PairBytes(ps[12])
    \o PairBytes(ps[13]) \o PairBytes(ps[14]) \o PairBytes(ps[15])
    \o DomainToBytes(k.permutation.linear_evaluations.domain)
    \o ScalarsToBytes(k.permutation.linear_evaluations.evals)
    \o DomainToBytes(k.v_h_coset_4n.domain)
    \o ScalarsToBytes(k.v_h_coset_4n.evals)

\* the integer at offset pos of b, or -1 when b is too short for it
CountAt(b, pos) ==
    IF pos < 0 \/ pos + U64Size > Len(b) THEN -1
    ELSE IF ~IsSmall(SubSeq(b, pos + 1, pos + U64Size)) THEN -1
    ELSE LeValue(SubSeq(b, pos + 1, pos + U64Size))

RECURSIVE AfterPairs(_, _, _)
\* the offset at which the j-th pair from offset p on ends when b is walked
\* by its own header and counts, or -1 when b ends before it
AfterPairs(b, p, j) ==
    IF p < 0 \/ j = 0 THEN p
    ELSE IF j = 1
    THEN LET c == CountAt(b, p)
             q == p + U64Size + c * ScalarSize + CountAt(b, U64Size)
         IN  IF c < 0 \/ CountAt(b, U64Size) < 0 \/ q > Len(b) THEN -1 ELSE q
    ELSE AfterPairs(b, AfterPairs(b, p, j \div 2), j - j \div 2)

\* the offset at which b ends when it holds j pairs and the two blocks
LayoutEnd(b, j) ==
    LET p == AfterPairs(b, 2 * U64Size, j)
    IN  IF p < 0 THEN -1 ELSE p + 2 * CountAt(b, U64Size)

\* C2: from_slice(to_var_bytes(k)) succeeds and returns k, for every key k
\* whose polynomials have one coefficient count, whose Evaluations blocks
\* have one length and whose shared selectors are equal in every fragment
C2_ProverKeyRoundTrip ==
    (tamper = "intact" /\ UniformPolys(pk) /\ UniformEvals(pk) /\ SharedEqual(pk))
        => (pres.kind = "ok" /\ pres.val = pk)

\* a round trip of such a key with a coefficient and a value in each field
C2_Witness ==
    /\ tamper = "intact"
    /\ UniformPolys(pk) /\ UniformEvals(pk) /\ SharedEqual(pk)
    /\ Len(pk.arithmetic.q_m[1]) >= 1
    /\ Len(pk.arithmetic.q_m[2].evals) >= 1
    /\ pres.kind = "ok"

\* C3: the round trip also holds when the coefficient counts differ from
\* field to field and the Evaluations blocks have one length
C3_VaryingCountsRoundTrip ==
    (tamper = "intact" /\ UniformEvals(pk) /\ SharedEqual(pk))
        => (pres.kind = "ok" /\ pres.val = pk)

\* C4: from_slice returns an error on every proper prefix of an encoding
\* and on every buffer whose declared count or evaluations-block length
\* exceeds the bytes that remain; it never panics, never returns a key
C4_TruncatedIsError ==
    tamper \in {"truncated", "overdeclared"} => pres.kind = "err"

C10_PairLayout ==
    /\ pbytes # <<>> =>
          /\ \A i \in 1..17 :
                Len(EvaluationsToVarBytes(PkEvalBlocks(pk)[i])) = CountAt(pbytes, U64Size)
          /\ IsPrefix(Layout(pk, PkCodecPairs(pk)), pbytes)
    /\ tamper = "intact" =>
          /\ pres.kind = "ok"
          /\ PkCodecPairs(pres.val) = PkCodecPairs(pk)
          /\ pres.val.permutation.linear_evaluations = pk.permutation.linear_evaluations
          /\ pres.val.v_h_coset_4n = pk.v_h_coset_4n

\* the length the layout gives the encoding of k: two integers, per pair a
\* count, the coefficients and one evaluations block, then two blocks
LayoutLength(k) ==
    LET block == DomainSize + ScalarSize * Len(k.arithmetic.q_m[2].evals)
        polys == [i \in 1..15 |-> PkCodecPairs(k)[i][1]]
    IN  2 * U64Size + 15 * (U64Size + block)
        + ScalarSize * TotalLen(polys, 1, 15) + 2 * block

\* C11: the length of to_var_bytes(k) is the length the layout gives: no
\* unwritten byte follows the last block and no write is dropped
C11_LengthFormula ==
    (pbytes # <<>> /\ UniformEvals(pk))
        => /\ Len(pbytes) = LayoutLength(pk)
           /\ AllWritesFit(pk)

\* the pairs of k whose polynomial is empty
EmptyPolys(k) == {j \in 1..15 : Len(PkCodecPairs(k)[j][1]) = 0}

\* C12: where the declared coefficient count is zero, poly_from_reader
\* yields the empty polynomial and moves past the count only,
\* evals_from_reader then reads the pair's block at the declared length, and
\* from_slice decodes every field of the key (the readers are applied to
\* the encoding as to_var_bytes returns it, before any decoding)
C12_ZeroCount ==
    /\ (pbytes # <<>> /\ pres = NoResult /\ EmptyPolys(pk) # {}
          /\ AllWritesFit(pk)) =>
          \A j \in EmptyPolys(pk) :
             LET off == WriteOffset(pk, 3 * j)
                 p == poly_from_reader(pbytes, off)
                 e == evals_from_reader(pbytes, off + U64Size,
                                        SubSeq(pbytes, U64Size + 1, 2 * U64Size))
             IN  /\ p = [kind |-> "ok", pos |-> off + U64Size, val |-> <<>>]
                 /\ e.kind = "ok"
                 /\ e.pos = off + U64Size + CountAt(pbytes, U64Size)
                 /\ e.val = PkCodecPairs(pk)[j][2]
    /\ (tamper = "intact" /\ EmptyPolys(pk) # {} /\ AllWritesFit(pk)) =>
          /\ pres.kind = "ok"
          /\ PkCodecPairs(pres.val) = PkCodecPairs(pk)
          /\ pres.val.v_h_coset_4n = pk.v_h_coset_4n

\* a decoded key whose q_l is empty between two polynomials that are not,
\* with evaluations blocks that hold values
C12_Witness ==
    /\ tamper = "intact" /\ pres.kind = "ok"
    /\ EmptyPolys(pk) = {2}
    /\ Len(pk.arithmetic.q_l[2].evals) > 0

(***************************************************************************)
(* VerifierKey: shared selectors, the constructor, decode errors           *)
(***************************************************************************)
\* every fragment that carries a shared selector holds the same commitment
VkSharedEqual(k) ==
    /\ k.fixed_base.q_l = k.arithmetic.q_l
    /\ k.fixed_base.q_r = k.arithmetic.q_r
    /\ k.logic.q_c = k.arithmetic.q_c

\* C13: a key whose fragments agree on q_l, q_r and q_c decodes from its
\* to_bytes to a key whose fragments agree on them, on the original values
C13_SharedSelectorsKept ==
    (vtamper = "intact" /\ VkSharedEqual(vk)) =>
        /\ vres.kind = "ok"
        /\ VkSharedEqual(vres.val)
        /\ vres.val.arithmetic.q_l = vk.arithmetic.q_l
        /\ vres.val.arithmetic.q_r = vk.arithmetic.q_r
        /\ vres.val.arithmetic.q_c = vk.arithmetic.q_c

\* a decoded struct-literal key whose fragments share a q_l that is not q_r
C13_Witness ==
    /\ vtamper = "intact" /\ vres.kind = "ok"
    /\ vsrc.how = "literal"
    /\ VkSharedEqual(vk)
    /\ vk.arithmetic.q_l # vk.arithmetic.q_r

\* the parameters of from_polynomial_commitments after n, in order
ConstructorParameters ==
    << "q_m", "q_l", "q_r", "q_o", "q_4", "q_c", "q_arith", "q_logic",
       "q_range", "q_fixed_group_add", "q_variable_group_add",
       "left_sigma", "right_sigma", "out_sigma", "fourth_sigma" >>

\* C14: from_polynomial_commitments returns, for every n and every 15
\* commitments, a key with n and each argument in the slot of its name, the
\* shared selectors in every fragment that carries them
C14_ConstructorSlots ==
    vsrc.how = "constructor" =>
        /\ DOMAIN vk = {"n", "arithmetic", "logic", "range", "fixed_base",
                        "variable_base", "permutation"}
        /\ vk.n = vsrc.n
        /\ \A i \in 1..15 : FieldByName(vk, ConstructorParameters[i]) = vsrc.c[i]
        /\ vk.logic.q_c = vsrc.c[6]
        /\ vk.fixed_base.q_l = vsrc.c[2]
        /\ vk.fixed_base.q_r = vsrc.c[3]

\* a constructed key whose arguments q_4 and q_c differ
C14_Witness ==
    /\ vsrc.how = "constructor"
    /\ vsrc.c[5] # vsrc.c[6]
    /\ vk # NoKey

BadSlots(b) == {i \in 1..15 : CommitmentFromBytes(VkSlot(b, i)).kind # "ok"}

\* C16: from_bytes returns an error whenever one of the 15 slots does not
\* parse as a point, whichever it is, and a key only when all 15 parse
C16_BadPointIsError ==
    /\ vtamper = "corrupt" => (BadSlots(vbuf) # {} /\ vres.kind = "err")
    /\ (vres # NoResult /\ Len(vbuf) = VerifierKeySize /\ BadSlots(vbuf) # {})
          => vres.kind = "err"
    /\ vres.kind = "ok" => (Len(vbuf) = VerifierKeySize /\ BadSlots(vbuf) = {})

\* from_bytes has seen a buffer whose last slot alone does not parse
C16_Witness ==
    /\ vtamper = "corrupt"
    /\ BadSlots(vbuf) = {15}
    /\ vres.kind = "err"

\* C17: a decode that fails returns one error value that names its cause:
\* BadLength for a buffer that is too short, InvalidPoint for a commitment
\* that does not parse, InvalidScalar for a field element that does not; a
\* ProverKey buffer that is too short gives BadLength
C17_ErrorKinds ==
    /\ (vres # NoResult /\ vres.kind # "ok") =>
          /\ vres.kind = "err"
          /\ vres.err \in {"BadLength", "InvalidPoint"}
          /\ vres.err = "BadLength" <=> Len(vbuf) < VerifierKeySize
    /\ (pres # NoResult /\ pres.kind # "ok") =>
          /\ pres.kind = "err"
          /\ pres.err \in {"BadLength", "InvalidScalar"}
    /\ (tamper = "truncated" /\ pres.kind # "ok") =>
          pres = [kind |-> "err", err |-> "BadLength"]

C20_ReencodeReproduces ==
    (tamper = "intact" /\ reenc # <<>>) => reenc = pbytes

\* a key with non-empty polynomials and evaluations has been encoded,
\* decoded and encoded again
C20_Witness ==
    /\ tamper = "intact" /\ reenc = pbytes /\ pbytes # <<>>
    /\ Len(PkCodecPairs(pk)[1][1]) > 0
    /\ Len(PkCodecPairs(pk)[1][2].evals) > 0

(***************************************************************************)
(* ProverKey: what from_slice checks and what it does not                  *)
(***************************************************************************)
\* C25: in every key from_slice returns, the views of a shared selector
\* are equal: q_l and q_r in arithmetic and fixed_base, q_c in arithmetic,
\* logic and fixed_base, each the one pair read from the buffer
C25_DecodedViewsAgree ==
    pres.kind = "ok" => SharedEqual(pres.val)

\* a key whose views of the shared selectors differ has been encoded and
\* decoded
C25_Witness ==
    /\ tamper = "intact" /\ pres.kind = "ok"
    /\ pk.fixed_base.q_l # pk.arithmetic.q_l
    /\ pk.arithmetic.q_l # pk.arithmetic.q_r
    /\ SharedEqual(pres.val)

\* C23: the n of a decoded key is the first integer of the buffer, whatever
\* the counts and lengths after it; with another n in its header an
\* encoding decodes as before, to the same polynomials and blocks, each
\* block cut at the declared length
C23_NoConsistencyCheck ==
    /\ pres.kind = "ok" => pres.val.n = U64FromBytes(SubSeq(buf, 1, U64Size))
    /\ tamper = "renumbered" =>
          LET d == from_slice(pbytes)
          IN  IF d.kind = "ok"
              THEN pres = [kind |-> "ok",
                           val |-> [d.val EXCEPT !.n = CountAt(buf, 0)]]
              ELSE pres = d

\* an encoding with polynomials and evaluations has decoded under a circuit
\* size that is not a power of two
C23_Witness ==
    /\ tamper = "renumbered" /\ pres.kind = "ok"
    /\ pres.val.n = 7 /\ pk.n # 7
    /\ PkCodecPairs(pres.val) = PkCodecPairs(pk)
    /\ Len(pk.arithmetic.q_m[1]) > 0
    /\ Len(pk.arithmetic.q_m[2].evals) > 0

\* C27: where to_var_bytes(k) decodes, to_var_bytes(k) followed by any
\* bytes decodes to the same key: from_slice stops after v_h_coset_4n and
\* does not look at what is left
C27_TrailingBytesIgnored ==
    tamper = "extended" =>
        LET d == from_slice(pbytes)
        IN  d.kind = "ok" => pres = d

\* an encoding that fills its buffer exactly has decoded with a non-zero
\* byte appended
C27_Witness ==
    /\ tamper = "extended" /\ pres.kind = "ok"
    /\ Len(pbytes) = TotalLen(PkWrites(pk), 1, Len(PkWrites(pk)))
    /\ buf[Len(buf)] = 255
    /\ PkCodecPairs(pres.val) = PkCodecPairs(pk)
    /\ Len(pk.arithmetic.q_m[1]) > 0

\* C26: poly_from_reader returns the empty polynomial only for a declared
\* count of 0: no other count is taken for an empty polynomial, and the
\* multiplication count * BlsScalar::SIZE traps for none
C26_EmptyOnlyForZeroCount ==
    /\ (pres.kind = "ok" /\ pres.val.arithmetic.q_m[1] = <<>>) =>
          SubSeq(buf, 2 * U64Size + 1, 3 * U64Size) = Zeros(U64Size)
    /\ (pres # NoResult /\ QmCountOverflows(buf)) =>
          /\ poly_from_reader(buf, 2 * U64Size).kind # "ok"
          /\ pres.kind = "err"

(***************************************************************************)
(* VerifierKey: the shared selectors are read through arithmetic           *)
(***************************************************************************)
\* the key k with the arithmetic values in every view of q_l, q_r and q_c
ArithmeticViews(k) ==
    [k EXCEPT !.logic.q_c = k.arithmetic.q_c,
              !.fixed_base.q_l = k.arithmetic.q_l,
              !.fixed_base.q_r = k.arithmetic.q_r]

\* C24: keys that differ only in logic.q_c, fixed_base.q_l or
\* fixed_base.q_r have the same to_bytes and seed the same transcript, and
\* from_bytes(to_bytes(k)) is k with the arithmetic value in every view,
\* which is not k when the fragments of k disagree
C24_SharedSelectorsFromArithmetic ==
    /\ (vbytes # <<>> /\ vres = NoResult) =>
          \A a \in Points, b \in Points, c \in Points :
             LET other == [vk EXCEPT !.logic.q_c = a, !.fixed_base.q_l = b,
                                     !.fixed_base.q_r = c]
             IN  /\ to_bytes(other) = vbytes
                 /\ seed_transcript(other, <<>>) = seed_transcript(vk, <<>>)
    /\ vtamper = "intact" =>
          /\ vres = [kind |-> "ok", val |-> ArithmeticViews(vk)]
          /\ ~VkSharedEqual(vk) => vres.val # vk

\* a key written with another q_l in fixed_base and another q_c in logic
\* than in arithmetic has been encoded and decoded
C24_Witness ==
    /\ vtamper = "intact" /\ vres.kind = "ok"
    /\ vk.fixed_base.q_l # vk.arithmetic.q_l
    /\ vk.logic.q_c # vk.arithmetic.q_c
    /\ vres.val = ArithmeticViews(vk)

(***************************************************************************)
(* ProverKey: the one evaluations-block length of the header               *)
(***************************************************************************)
\* the index among the writes of to_var_bytes of the i-th of the 17
\* evaluations blocks
BlockWrite(i) == IF i <= num_polys THEN 3 * i + 2 ELSE 2 * num_polys + 2 + i

NumCallers == 2

Callers == 1..NumCallers

Idle == [op |-> "idle"]

\* a VerifierKey whose fragments disagree on q_l and q_c
SharedVerifierKeys == {VerifierKeyLiteral(32, 1, 2, 2, 1)}

\* a ProverKey whose writes all fit its buffer, and one with q_m empty,
\* whose last writes do not
SharedProverKeys ==
    {MakeProverKey(32, [i \in 1..15 |-> IF i = 1 THEN c ELSE MaxCoeffs],
                   MaxEvals, TRUE) : c \in {0, MaxCoeffs}}

ConcurrentInit ==
    /\ \/ vk \in SharedVerifierKeys /\ pk = NoKey
       \/ vk = NoKey /\ pk \in SharedProverKeys
    /\ vsrc = [how |-> "shared", vk |-> vk, pk |-> pk]
    /\ vbytes = <<>>
    /\ vbuf = <<>>
    /\ vtamper = "none"
    /\ vres = NoResult
    /\ transcript = <<>>
    /\ transcript2 = <<>>
    /\ pbytes = <<>>
    /\ buf = <<>>
    /\ tamper = "none"
    /\ pres = NoResult
    /\ reenc = <<>>
    /\ again = <<>>
    /\ calls = [c \in Callers |-> Idle]

\* the methods of the shared key
Methods ==
    IF vk # NoKey THEN {"to_bytes", "seed_transcript"}
    ELSE {"to_var_bytes", "v_h_coset_4n"}

\* the number of steps of a call
CallSteps(op) ==
    CASE op = "to_bytes" -> 16
      [] op = "seed_transcript" -> 16
      [] op = "to_var_bytes" -> num_polys + 2
      [] op = "v_h_coset_4n" -> 0

\* what a call owns when it starts: the zeroed buffer of an encoder, the
\* caller's fresh transcript
Local(op) ==
    CASE op = "to_bytes" -> NewWriter(VerifierKeySize)
      [] op = "to_var_bytes" -> NewWriter(PkCapacity(pk))
      [] OTHER -> <<>>

\* the writes of the s-th step of to_var_bytes: the two header integers,
\* then one pair per step, then the two last blocks
PkStepWrites(s) ==
    IF s = 1 THEN <<1, 2>>
    ELSE IF s <= num_polys + 1 THEN <<3 * (s - 1), 3 * (s - 1) + 2>>
    ELSE <<3 * num_polys + 3, 3 * num_polys + 4>>

\* what the call owns after its step pc
AfterStep(op, acc, pc) ==
    CASE op = "to_bytes" -> Write(acc, VkWrites(vk)[pc])
      [] op = "seed_transcript" -> Append(acc, seed_transcript(vk, <<>>)[pc])
      [] op = "to_var_bytes" ->
            WriteAll(acc, PkWrites(pk), PkStepWrites(pc)[1], PkStepWrites(pc)[2])

\* what the call returns, or leaves in its caller's transcript
Result(op, acc) ==
    CASE op = "to_bytes" -> Buffer(acc)
      [] op = "seed_transcript" -> acc
      [] op = "to_var_bytes" -> Buffer(acc)
      [] op = "v_h_coset_4n" -> pk.v_h_coset_4n

InCall(c) == calls[c].op \in Methods

\* caller c calls a method of the shared key
Begin(c) ==
    /\ calls[c] = Idle
    /\ \E op \in Methods :
          calls' = [calls EXCEPT ![c] = [op |-> op, pc |-> 1, acc |-> Local(op)]]
    /\ UNCHANGED <<vk, vsrc, vbytes, vbuf, vtamper, vres, transcript, transcript2,
                   pk, pbytes, buf, tamper, pres, reenc, again>>

\* a step of to_var_bytes that moves q_m's polynomial out of the key
\* instead of borrowing it
StepCall_takes_q_m(c) ==
    /\ InCall(c)
    /\ calls[c].pc <= CallSteps(calls[c].op)
    /\ calls' = [calls EXCEPT ![c].acc = AfterStep(calls[c].op, @, calls[c].pc),
                              ![c].pc = @ + 1]
    /\ pk' = IF calls[c].op = "to_var_bytes" /\ calls[c].pc = 2
             THEN [pk EXCEPT !.arithmetic.q_m = <<<<>>, @[2]>>]
             ELSE pk
    /\ UNCHANGED <<vk, vsrc, vbytes, vbuf, vtamper, vres, transcript, transcript2,
                   pbytes, buf, tamper, pres, reenc, again>>

\* the next step of caller c's call
StepCall(c) ==
    /\ InCall(c)
    /\ calls[c].pc <= CallSteps(calls[c].op)
    /\ calls' = [calls EXCEPT ![c].acc = AfterStep(calls[c].op, @, calls[c].pc),
                              ![c].pc = @ + 1]
    /\ UNCHANGED <<vk, vsrc, vbytes, vbuf, vtamper, vres, transcript, transcript2,
                   pk, pbytes, buf, tamper, pres, reenc, again>>

\* caller c's call returns; overlapped tells whether another call was in
\* progress then
Return(c) ==
    /\ InCall(c)
    /\ calls[c].pc > CallSteps(calls[c].op)
    /\ calls' = [calls EXCEPT ![c] =
                    [op |-> "returned", of |-> calls[c].op,
                     ret |-> Result(calls[c].op, calls[c].acc),
                     overlapped |-> \E d \in Callers \ {c} : InCall(d)]]
    /\ UNCHANGED <<vk, vsrc, vbytes, vbuf, vtamper, vres, transcript, transcript2,
                   pk, pbytes, buf, tamper, pres, reenc, again>>

ConcurrentNext == \E c \in Callers : Begin(c) \/ StepCall(c) \/ Return(c)

ConcurrentSpec == ConcurrentInit /\ [][ConcurrentNext]_vars

\* what the method returns when it is the only call on the key as built
Alone(op) ==
    CASE op = "to_bytes" -> to_bytes(vsrc.vk)
      [] op = "seed_transcript" -> seed_transcript(vsrc.vk, <<>>)
      [] op = "to_var_bytes" -> to_var_bytes(vsrc.pk)
      [] op = "v_h_coset_4n" -> vsrc.pk.v_h_coset_4n

\* C21: while any number of calls of to_bytes, seed_transcript,
\* to_var_bytes and v_h_coset_4n run on one shared key, in any
\* interleaving of their steps, the key keeps the fields it was built
\* with, and every call returns what it returns when run alone
C21_SharedKeyUnchanged ==
    vsrc.how = "shared" =>
        /\ vk = vsrc.vk /\ pk = vsrc.pk
        /\ \A c \in Callers :
              calls[c].op = "returned" => calls[c].ret = Alone(calls[c].of)

\* two calls of to_var_bytes have returned, the first of them while the
\* other was in progress
C21_Witness ==
    /\ vsrc.how = "shared"
    /\ \A c \in Callers : calls[c].op = "returned" /\ calls[c].of = "to_var_bytes"
    /\ \E c \in Callers : calls[c].overlapped
    /\ \A c \in Callers : calls[c].ret = to_var_bytes(pk)

=============================================================================
